---- MODULE Spec2Model ----
(***************************************************************************)
(* The weather widget of src/Weather/script.js: the cache-then-race fetch  *)
(* orchestrator fetchWeatherData, its three provider adapters and the pure *)
(* normalisation helpers they use.                                         *)
(*                                                                         *)
(* JavaScript values are tagged records (Str, Num, Undefined, NaN) so that *)
(* a missing JSON field, a NaN and a real value can sit in the same slot.  *)
(* Strings are TLA+ strings, processed character by character.             *)
(***************************************************************************)
EXTENDS Integers, Sequences, FiniteSets, TLC

VARIABLES now, ticks, cache, calls, started, fnRes, requests, ui

vars == <<now, ticks, cache, calls, started, fnRes, requests, ui>>

(***************************************************************************)
(* JavaScript values                                                       *)
(***************************************************************************)
Undefined == [t |-> "undefined"]
NaN == [t |-> "NaN"]
Str(s) == [t |-> "string", v |-> s]
Num(n) == [t |-> "number", v |-> n]

IsStr(x) == x.t = "string"
IsNum(x) == x.t = "number"

(***************************************************************************)
(* String helpers: String.prototype.toLowerCase, trim and includes over    *)
(* the ASCII letters and the blank.                                        *)
(***************************************************************************)
LowerChar(c) ==
    CASE c = "A" -> "a" [] c = "B" -> "b" [] c = "C" -> "c" [] c = "D" -> "d"
      [] c = "E" -> "e" [] c = "F" -> "f" [] c = "G" -> "g" [] c = "H" -> "h"
      [] c = "I" -> "i" [] c = "J" -> "j" [] c = "K" -> "k" [] c = "L" -> "l"
      [] c = "M" -> "m" [] c = "N" -> "n" [] c = "O" -> "o" [] c = "P" -> "p"
      [] c = "Q" -> "q" [] c = "R" -> "r" [] c = "S" -> "s" [] c = "T" -> "t"
      [] c = "U" -> "u" [] c = "V" -> "v" [] c = "W" -> "w" [] c = "X" -> "x"
      [] c = "Y" -> "y" [] c = "Z" -> "z" [] OTHER -> c

RECURSIVE toLowerCase(_)
toLowerCase(s) ==
    IF Len(s) = 0 THEN ""
    ELSE LowerChar(SubSeq(s, 1, 1)) \o toLowerCase(SubSeq(s, 2, Len(s)))

IsSpace(c) == c = " "

RECURSIVE trimStart(_)
trimStart(s) ==
    IF Len(s) > 0 /\ IsSpace(SubSeq(s, 1, 1))
    THEN trimStart(SubSeq(s, 2, Len(s)))
    ELSE s

RECURSIVE trimEnd(_)
trimEnd(s) ==
    IF Len(s) > 0 /\ IsSpace(SubSeq(s, Len(s), Len(s)))
    THEN trimEnd(SubSeq(s, 1, Len(s) - 1))
    ELSE s

trim(s) == trimEnd(trimStart(s))

includes(s, kw) ==
    \E i \in 1..(Len(s) - Len(kw) + 1) : SubSeq(s, i, i + Len(kw) - 1) = kw

(***************************************************************************)
(* Pure helpers of the adapters                                            *)
(***************************************************************************)
\* getWeatherDescription: the lookup table, 'clear sky' for an unlisted code
\* (and for undefined, which is no key of the table).
descriptions ==
    [c \in {0, 1, 2, 3, 45, 48, 51, 53, 55, 61, 63, 65, 71, 73, 75, 95, 96, 99} |->
        CASE c = 0 -> "clear sky"
          [] c = 1 -> "mainly clear"
          [] c = 2 -> "partly cloudy"
          [] c = 3 -> "overcast"
          [] c = 45 -> "fog"
          [] c = 48 -> "depositing rime fog"
          [] c = 51 -> "light drizzle"
          [] c = 53 -> "moderate drizzle"
          [] c = 55 -> "dense drizzle"
          [] c = 61 -> "slight rain"
          [] c = 63 -> "moderate rain"
          [] c = 65 -> "heavy rain"
          [] c = 71 -> "slight snow"
          [] c = 73 -> "moderate snow"
          [] c = 75 -> "heavy snow"
          [] c = 95 -> "thunderstorm"
          [] c = 96 -> "thunderstorm with hail"
          [] c = 99 -> "thunderstorm with heavy hail"]

getWeatherDescription(code) ==
    IF IsNum(code) /\ code.v \in DOMAIN descriptions
    THEN descriptions[code.v]
    ELSE "clear sky"

\* variant of getWeatherIconFromCode: the last bucket closed at 99.
getWeatherIconFromCodeBounded(code) ==
    IF ~IsNum(code) THEN "01d"
    ELSE IF code.v = 0 THEN "01d"
    ELSE IF code.v <= 3 THEN "02d"
    ELSE IF code.v >= 45 /\ code.v <= 48 THEN "50d"
    ELSE IF code.v >= 51 /\ code.v <= 55 THEN "09d"
    ELSE IF code.v >= 61 /\ code.v <= 65 THEN "10d"
    ELSE IF code.v >= 71 /\ code.v <= 75 THEN "13d"
    ELSE IF code.v >= 95 /\ code.v <= 99 THEN "11d"
    ELSE "01d"

\* getWeatherIconFromCode: the if-chain in source order. Every comparison of
\* undefined (a missing weathercode) is false, which leaves the last return.
getWeatherIconFromCode(code) ==
    IF ~IsNum(code) THEN "01d"
    ELSE IF code.v = 0 THEN "01d"
    ELSE IF code.v <= 3 THEN "02d"
    ELSE IF code.v >= 45 /\ code.v <= 48 THEN "50d"
    ELSE IF code.v >= 51 /\ code.v <= 55 THEN "09d"
    ELSE IF code.v >= 61 /\ code.v <= 65 THEN "10d"
    ELSE IF code.v >= 71 /\ code.v <= 75 THEN "13d"
    ELSE IF code.v >= 95 THEN "11d"
    ELSE "01d"

\* variant of getWeatherIconFromDescription: the rain test moved before the
\* cloud test and the thunder test before both.
getWeatherIconFromDescriptionReordered(description) ==
    LET desc == toLowerCase(description) IN
    IF includes(desc, "clear") \/ includes(desc, "sunny") THEN "01d"
    ELSE IF includes(desc, "thunder") THEN "11d"
    ELSE IF includes(desc, "rain") \/ includes(desc, "drizzle") THEN "10d"
    ELSE IF includes(desc, "cloud") THEN "03d"
    ELSE IF includes(desc, "snow") THEN "13d"
    ELSE IF includes(desc, "mist") \/ includes(desc, "fog") THEN "50d"
    ELSE "01d"

\* getWeatherIconFromDescription: the if-chain in source order.
getWeatherIconFromDescription(description) ==
    LET desc == toLowerCase(description) IN
    IF includes(desc, "clear") \/ includes(desc, "sunny") THEN "01d"
    ELSE IF includes(desc, "cloud") THEN "03d"
    ELSE IF includes(desc, "rain") \/ includes(desc, "drizzle") THEN "10d"
    ELSE IF includes(desc, "thunder") THEN "11d"
    ELSE IF includes(desc, "snow") THEN "13d"
    ELSE IF includes(desc, "mist") \/ includes(desc, "fog") THEN "50d"
    ELSE "01d"

(***************************************************************************)
(* Number helpers                                                          *)
(***************************************************************************)
\* A JSON number with one decimal place, held in tenths (705 is 70.5).
Num10(n) == [t |-> "number10", v |-> n]

\* Math.round: the nearest integer, halves up; NaN for what is no number.
MathRound(x) ==
    IF x.t = "number" THEN x
    ELSE IF x.t = "number10" THEN Num((x.v + 5) \div 10)
    ELSE NaN

DigitVal(c) ==
    CASE c = "0" -> 0 [] c = "1" -> 1 [] c = "2" -> 2 [] c = "3" -> 3
      [] c = "4" -> 4 [] c = "5" -> 5 [] c = "6" -> 6 [] c = "7" -> 7
      [] c = "8" -> 8 [] c = "9" -> 9 [] OTHER -> -1

RECURSIVE ParseDigits(_, _)
ParseDigits(s, acc) ==
    IF Len(s) > 0 /\ DigitVal(SubSeq(s, 1, 1)) >= 0
    THEN ParseDigits(SubSeq(s, 2, Len(s)), 10 * acc + DigitVal(SubSeq(s, 1, 1)))
    ELSE acc

\* parseInt: leading blanks skipped, an optional sign, then the leading
\* digits; NaN when there is no digit (and for undefined).
parseInt(x) ==
    IF x.t = "number" THEN x
    ELSE IF x.t # "string" THEN NaN
    ELSE LET s == trimStart(x.v)
             neg == Len(s) > 0 /\ SubSeq(s, 1, 1) = "-"
             body == IF neg THEN SubSeq(s, 2, Len(s)) ELSE s
         IN IF Len(body) = 0 \/ DigitVal(SubSeq(body, 1, 1)) < 0 THEN NaN
            ELSE Num(IF neg THEN 0 - ParseDigits(body, 0) ELSE ParseDigits(body, 0))

\* Template-literal interpolation `${x}` of a string or of undefined.
Interpolate(x) == IF x.t = "string" THEN x.v ELSE "undefined"

(***************************************************************************)
(* Outcomes of an async function: a returned value or a thrown error       *)
(***************************************************************************)
Return(v) == [ok |-> TRUE, value |-> v, error |-> ""]
Throw(e) == [ok |-> FALSE, value |-> Undefined, error |-> e]

IsObj(x) == x.t = "object"

\* a[0] of a JSON array (undefined when it is empty)
First(a) == IF Len(a.items) > 0 THEN a.items[1] ELSE Undefined
IsArr(x) == x.t = "array"

\* What fetch() and response.json() deliver
NetworkError == [t |-> "neterr"]
Http(ok, body) == [t |-> "http", ok |-> ok, body |-> body]
BadJson == [t |-> "invalid"]

Report(name, temp, hum, description, icon) ==
    [name |-> name,
     main |-> [temp |-> temp, humidity |-> hum],
     weather |-> <<[description |-> description, icon |-> icon]>>]

(***************************************************************************)
(* The adapters, as functions of what the provider answers                 *)
(***************************************************************************)
\* fetchFromWeatherAPI
fetchFromWeatherAPI(resp) ==
    IF resp.t = "neterr" THEN Throw("TypeError: Failed to fetch")
    ELSE IF ~resp.ok THEN Throw("WeatherAPI failed")
    ELSE IF resp.body.t = "invalid" THEN Throw("SyntaxError")
    ELSE LET data == resp.body IN
         IF ~IsObj(data.location) \/ ~IsObj(data.current) THEN Throw("TypeError")
         ELSE IF ~IsObj(data.current.condition) THEN Throw("TypeError")
         ELSE IF ~IsStr(data.current.condition.text) THEN Throw("TypeError")
         ELSE Return(Report(
                Interpolate(data.location.name) \o ", " \o Interpolate(data.location.country),
                MathRound(data.current.temp_f),
                data.current.humidity,
                toLowerCase(data.current.condition.text.v),
                getWeatherIconFromDescription(toLowerCase(data.current.condition.text.v))))

\* fetchFromOpenMeteo, first request: the geocoding lookup. The value returned
\* is the destructured first match the forecast request goes on with.
geocode(resp) ==
    IF resp.t = "neterr" THEN Throw("TypeError: Failed to fetch")
    ELSE IF ~resp.ok THEN Throw("Geocoding failed")
    ELSE IF resp.body.t = "invalid" THEN Throw("SyntaxError")
    ELSE LET geoData == resp.body IN
         IF ~IsArr(geoData.results) \/ Len(geoData.results.items) = 0
         THEN Throw("City not found")
         ELSE IF ~IsObj(First(geoData.results)) THEN Throw("TypeError")
         ELSE Return([name |-> First(geoData.results).name,
                      country |-> First(geoData.results).country])

\* fetchFromOpenMeteo, second request: the forecast for the match `place`.
forecast(place, resp) ==
    IF resp.t = "neterr" THEN Throw("TypeError: Failed to fetch")
    ELSE IF ~resp.ok THEN Throw("Weather fetch failed")
    ELSE IF resp.body.t = "invalid" THEN Throw("SyntaxError")
    ELSE LET current == resp.body.current_weather IN
         IF ~IsObj(current) THEN Throw("TypeError")
         ELSE Return(Report(
                Interpolate(place.name) \o ", " \o Interpolate(place.country),
                MathRound(current.temperature),
                Num(65),
                getWeatherDescription(current.weathercode),
                getWeatherIconFromCode(current.weathercode)))

\* fetchFromWttr
fetchFromWttr(resp) ==
    IF resp.t = "neterr" THEN Throw("TypeError: Failed to fetch")
    ELSE IF ~resp.ok THEN Throw("Wttr failed")
    ELSE IF resp.body.t = "invalid" THEN Throw("SyntaxError")
    ELSE LET data == resp.body IN
         IF ~IsArr(data.current_condition) \/ ~IsArr(data.nearest_area) THEN Throw("TypeError")
         ELSE LET current == First(data.current_condition)
                  location == First(data.nearest_area)
              IN IF ~IsObj(current) \/ ~IsObj(location) THEN Throw("TypeError")
                 ELSE IF ~IsArr(location.areaName) \/ ~IsArr(location.country)
                         \/ ~IsArr(current.weatherDesc) THEN Throw("TypeError")
                 ELSE IF ~IsObj(First(location.areaName)) \/ ~IsObj(First(location.country))
                         \/ ~IsObj(First(current.weatherDesc)) THEN Throw("TypeError")
                 ELSE IF ~IsStr(First(current.weatherDesc).value) THEN Throw("TypeError")
                 ELSE Return(Report(
                        Interpolate(First(location.areaName).value) \o ", "
                            \o Interpolate(First(location.country).value),
                        MathRound(parseInt(current.temp_F)),
                        parseInt(current.humidity),
                        toLowerCase(First(current.weatherDesc).value.v),
                        getWeatherIconFromDescription(
                            toLowerCase(First(current.weatherDesc).value.v))))

(***************************************************************************)
(* Bounds of the model and the program's constants                         *)
(***************************************************************************)
\* fetchWeatherData is called at most MaxCalls times in a run
MaxCalls == 2
\* the clock is advanced at most MaxTicks times in a run
MaxTicks == 1
\* the weather codes the pure functions are applied to run up to MaxCode
MaxCode == 101

CACHE_DURATION == 600000

UnifiedError == "Unable to fetch weather data from any source"

Adapters == {"WeatherAPI", "OpenMeteo", "Wttr"}

\* The city strings fetchWeatherData is called with
Queries == {"Paris", " paris ", "PARIS", "Rome"}

\* Clock advances: half the staleness duration, or all of it
TickSteps == {CACHE_DURATION \div 2, CACHE_DURATION}

(***************************************************************************)
(* The providers. A provider resolves the city of a request to a place     *)
(* (PlaceOf) and answers for that place.                                   *)
(***************************************************************************)
Obj(fields) == [t |-> "object"] @@ fields
Arr(items) == [t |-> "array", items |-> items]

Paris == [name |-> "Paris", country |-> "France"]
Rome == [name |-> "Rome", country |-> "Italy"]

PlaceOf(city) == IF trim(toLowerCase(city)) = "paris" THEN Paris ELSE Rome

WeatherAPIBody(place, hum, cond) ==
    Obj([location |-> Obj([name |-> Str(place.name), country |-> Str(place.country)]),
         current |-> Obj([temp_f |-> Num10(705), humidity |-> hum, condition |-> cond])])

\* Answers that fail the adapter, or carry every field it reads
WeatherAPIAnswers(place) ==
    {NetworkError, Http(FALSE, BadJson),
     Http(TRUE, WeatherAPIBody(place, Num(40), Obj([text |-> Str("Sunny")])))}

\* Further answers: malformed bodies, and bodies that lack a field
WeatherAPIOddAnswers(place) ==
    {Http(TRUE, BadJson),
     Http(TRUE, WeatherAPIBody(place, Num(40), Undefined)),
     Http(TRUE, WeatherAPIBody(place, Num(40), Obj([text |-> Undefined]))),
     Http(TRUE, WeatherAPIBody(place, Undefined, Obj([text |-> Str("Sunny")])))}

GeocodingAnswers(place) ==
    {Http(FALSE, BadJson),
     Http(TRUE, Obj([results |-> Arr(<<>>)])),
     Http(TRUE, Obj([results |-> Arr(<<Obj([name |-> Str(place.name),
                                            country |-> Str(place.country)])>>)]))}

GeocodingOddAnswers(place) ==
    {NetworkError, Http(TRUE, BadJson), Http(TRUE, Obj([results |-> Undefined]))}

ForecastBody(temp, code) ==
    Obj([current_weather |-> Obj([temperature |-> temp, weathercode |-> code])])

ForecastAnswers ==
    {NetworkError, Http(FALSE, BadJson), Http(TRUE, ForecastBody(Num10(684), Num(61)))}

ForecastOddAnswers ==
    {Http(TRUE, BadJson),
     Http(TRUE, Obj([current_weather |-> Undefined])),
     Http(TRUE, ForecastBody(Undefined, Num(61))),
     Http(TRUE, ForecastBody(Num10(684), Undefined))}

WttrBody(place, hum, desc) ==
    Obj([current_condition |-> Arr(<<Obj([temp_F |-> Str("66"), humidity |-> hum,
                                          weatherDesc |-> Arr(<<Obj([value |-> desc])>>)])>>),
         nearest_area |-> Arr(<<Obj([areaName |-> Arr(<<Obj([value |-> Str(place.name)])>>),
                                     country |-> Arr(<<Obj([value |-> Str(place.country)])>>)])>>)])

WttrAnswers(place) ==
    {Http(FALSE, BadJson), Http(TRUE, BadJson),
     Http(TRUE, WttrBody(place, Str("72"), Str("Partly cloudy")))}

WttrOddAnswers(place) ==
    {NetworkError,
     Http(TRUE, Obj([current_condition |-> Arr(<<>>), nearest_area |-> Arr(<<>>)])),
     Http(TRUE, WttrBody(place, Str("72"), Undefined)),
     Http(TRUE, WttrBody(place, Undefined, Str("Partly cloudy")))}

(***************************************************************************)
(* fetchWeatherData: the cache and the race                                *)
(***************************************************************************)
\* const cacheKey = city.toLowerCase().trim()
\* variant: the city itself is the key
cacheKeyRaw(city) == city

\* variant: the key is lower-cased but keeps its surrounding blanks
cacheKeyUntrimmed(city) == toLowerCase(city)

\* const cacheKey = city.toLowerCase().trim()
cacheKeyOf(city) == trim(toLowerCase(city))

\* variant: the age test turned round
CacheHitInverted(c, key, t) == key \in DOMAIN c /\ t - c[key].timestamp > CACHE_DURATION

\* variant: an entry of age CACHE_DURATION exactly still counts as fresh
CacheHitInclusive(c, key, t) == key \in DOMAIN c /\ t - c[key].timestamp <= CACHE_DURATION

\* WEATHER_CACHE.has(cacheKey) && Date.now() - cached.timestamp < CACHE_DURATION
CacheHit(c, key, t) == key \in DOMAIN c /\ t - c[key].timestamp < CACHE_DURATION

\* variant: a fresh entry written by an overlapping call is kept
CacheSetIfStale(c, key, data, t) ==
    IF key \in DOMAIN c /\ t - c[key].timestamp < CACHE_DURATION
    THEN c
    ELSE [k \in DOMAIN c \cup {key} |->
            IF k = key THEN [data |-> data, timestamp |-> t] ELSE c[k]]

\* WEATHER_CACHE.set(cacheKey, {data, timestamp: Date.now()})
CacheSet(c, key, data, t) ==
    [k \in DOMAIN c \cup {key} |->
        IF k = key THEN [data |-> data, timestamp |-> t] ELSE c[k]]

\* variant: Promise.race-like, the first rejection rejects the race
AnyRejectsFirst(ads) == \E a \in Adapters : ads[a] = "rejected"

\* variant: a promise that never settles counts as rejected (a timeout)
AnyRejectsTimeout(ads) == \A a \in Adapters : ads[a] \in {"rejected", "hung"}

\* Promise.any rejects once every promise it was given has rejected
AnyRejects(ads) == \A a \in Adapters : ads[a] = "rejected"

\* variant: every fulfilment, a late one too, becomes the result
AnyFulfilsLate(status, outcome) == outcome.ok

\* Promise.any fulfils with a fulfilment only while it is still pending
AnyFulfils(status, outcome) == status = "pending" /\ outcome.ok

\* what Promise.any rejects with
AggregateError == "AggregateError: All promises were rejected"

\* variant: the catch block rethrows what it caught
CatchRethrow(aggregate) == aggregate

\* catch (error) { throw new Error('Unable to fetch ...') }
CatchError(aggregate) == UnifiedError

\* variant: the catch block drops the key's entry
CatchEvict(c, key) == [k \in DOMAIN c \ {key} |-> c[k]]

\* what the catch block leaves of the cache
CatchCache(c, key) == c

NoReport == Undefined

\* The fetch() calls made on behalf of one call of fetchWeatherData, per
\* endpoint: none before the call (and none on a cache hit), one to each
\* first endpoint once the three adapters have been started.
NoRequests == [WeatherAPI |-> 0, Geocoding |-> 0, Forecast |-> 0, Wttr |-> 0]

FirstRequests == [WeatherAPI |-> 1, Geocoding |-> 1, Forecast |-> 0, Wttr |-> 1]

\* variant: the forecast request goes out whatever the geocoding gave
ForecastRequestsAlways(n, geo) == n + 1

\* fetchFromOpenMeteo reaches its second fetch() only if the geocoding part
\* did not throw
ForecastRequests(n, geo) == IF geo.ok THEN n + 1 ELSE n

(***************************************************************************)
(* The page: the card's classes, the button, the message line, the input   *)
(* field, the weather elements and what they show, and the pending         *)
(* setTimeout callbacks of showError (the milliseconds each has left).     *)
(***************************************************************************)
PleaseEnterCity == "Please enter a city to get weather information"

\* init(): hideWeatherElements(); showMessage(...). The button's first label
\* comes from the page's markup and is left empty here.
init ==
    [input |-> "", loading |-> FALSE, error |-> FALSE, disabled |-> FALSE,
     buttonText |-> "",
     message |-> PleaseEnterCity, messageShown |-> TRUE,
     elementsShown |-> FALSE, report |-> NoReport, timers |-> <<>>]

EnterCityName == "Please enter a city name"
Fetching == "Fetching weather data..."
GenericError == "City not found or network error. Please try again."

\* the delay of showError's setTimeout, in milliseconds
ERROR_DELAY == 3000

UpperChar(c) ==
    CASE c = "a" -> "A" [] c = "b" -> "B" [] c = "c" -> "C" [] c = "d" -> "D"
      [] c = "e" -> "E" [] c = "f" -> "F" [] c = "g" -> "G" [] c = "h" -> "H"
      [] c = "i" -> "I" [] c = "j" -> "J" [] c = "k" -> "K" [] c = "l" -> "L"
      [] c = "m" -> "M" [] c = "n" -> "N" [] c = "o" -> "O" [] c = "p" -> "P"
      [] c = "q" -> "Q" [] c = "r" -> "R" [] c = "s" -> "S" [] c = "t" -> "T"
      [] c = "u" -> "U" [] c = "v" -> "V" [] c = "w" -> "W" [] c = "x" -> "X"
      [] c = "y" -> "Y" [] c = "z" -> "Z" [] OTHER -> c

\* \w of a regular expression
IsWordChar(c) ==
    \/ UpperChar(c) # c
    \/ LowerChar(c) # c
    \/ DigitVal(c) >= 0
    \/ c = "_"

\* str.replace(/\b\w/g, char => char.toUpperCase()), inWord telling whether
\* the character before s was a word character
RECURSIVE CapitalizeFrom(_, _)
CapitalizeFrom(s, inWord) ==
    IF Len(s) = 0 THEN ""
    ELSE LET c == SubSeq(s, 1, 1) IN
         (IF IsWordChar(c) /\ ~inWord THEN UpperChar(c) ELSE c)
            \o CapitalizeFrom(SubSeq(s, 2, Len(s)), IsWordChar(c))

capitalizeWords(str) == CapitalizeFrom(str, FALSE)

\* The glyphs of weatherIcons, by name
weatherIcons ==
    [k \in {"01d", "01n", "02d", "02n", "03d", "03n", "04d", "04n", "09d", "09n",
            "10d", "10n", "11d", "11n", "13d", "13n", "50d", "50n"} |->
        CASE k = "01d" -> "sun"
          [] k = "01n" -> "moon"
          [] k = "02d" -> "sun behind small cloud"
          [] k = "03d" -> "sun behind cloud"
          [] k \in {"02n", "03n", "04d", "04n"} -> "cloud"
          [] k \in {"09d", "10d"} -> "sun behind rain cloud"
          [] k \in {"09n", "10n"} -> "cloud with rain"
          [] k \in {"11d", "11n"} -> "cloud with lightning and rain"
          [] k \in {"13d", "13n"} -> "snowflake"
          [] k \in {"50d", "50n"} -> "fog"]

\* `${x}` of a number, of NaN or of undefined
InterpolateNumber(x) ==
    IF x.t = "number" THEN ToString(x.v)
    ELSE IF x.t = "NaN" THEN "NaN"
    ELSE "undefined"

hideWeatherElements(u) == [u EXCEPT !.elementsShown = FALSE]

\* variant: the message also marks the card as failed
showMessageAsError(u, msg) ==
    [u EXCEPT !.message = msg, !.messageShown = TRUE, !.elementsShown = FALSE,
              !.error = TRUE]

showMessage(u, msg) ==
    hideWeatherElements([u EXCEPT !.message = msg, !.messageShown = TRUE])

showLoading(u) ==
    hideWeatherElements([u EXCEPT !.loading = TRUE, !.message = Fetching,
                                  !.messageShown = TRUE, !.disabled = TRUE,
                                  !.buttonText = "Loading..."])

\* showError, the callback it schedules included as one more pending timer
showError(u, errorMessage) ==
    hideWeatherElements([u EXCEPT !.loading = FALSE, !.error = TRUE,
                                  !.message = errorMessage, !.messageShown = TRUE,
                                  !.disabled = FALSE, !.buttonText = "Get Weather",
                                  !.timers = Append(@, ERROR_DELAY)])

displayWeatherData(u, data) ==
    LET iconCode == IF data.weather[1].icon # ""
                    THEN data.weather[1].icon
                    ELSE getWeatherIconFromDescription(data.weather[1].description)
    IN [u EXCEPT !.messageShown = FALSE,
                 !.report = [cityName |-> data.name,
                             temperature |-> InterpolateNumber(MathRound(data.main.temp)) \o "°F",
                             humidity |-> "Humidity: " \o InterpolateNumber(data.main.humidity) \o "%",
                             condition |-> capitalizeWords(data.weather[1].description),
                             weatherIcon |-> IF iconCode \in DOMAIN weatherIcons
                                             THEN weatherIcons[iconCode]
                                             ELSE "sun behind small cloud"],
                 !.elementsShown = TRUE,
                 !.loading = FALSE, !.error = FALSE,
                 !.disabled = FALSE, !.buttonText = "Get Weather",
                 !.input = ""]


\* A call of fetchWeatherData: its promise (status, value, error), its
\* argument city and local cacheKey, the branch its cache check took (saw:
\* "hit", "stale" for an entry too old, "absent"), the state of each adapter's
\* promise ("forecast": OpenMeteo awaiting its second request) and the match
\* OpenMeteo's geocoding returned.
IdleCall ==
    [status |-> "idle", city |-> "", cacheKey |-> "", saw |-> "none",
     value |-> NoReport, error |-> "", place |-> Undefined,
     adapters |-> [a \in Adapters |-> "idle"]]

\* An adapter's promise after `outcome`
Settled(outcome) == IF outcome.ok THEN "fulfilled" ELSE "rejected"

\* The promise of adapter a of call c settles with `outcome`: Promise.any
\* settles with it or ignores it, and fetchWeatherData goes on after its await.
Settle(c, a, outcome) ==
    LET call == calls[c]
        ads == [call.adapters EXCEPT ![a] = Settled(outcome)]
    IN IF AnyFulfils(call.status, outcome)
       THEN /\ calls' = [calls EXCEPT ![c] = [call EXCEPT !.adapters = ads,
                                                          !.status = "fulfilled",
                                                          !.value = outcome.value]]
            /\ cache' = CacheSet(cache, call.cacheKey, outcome.value, now)
       ELSE IF call.status = "pending" /\ AnyRejects(ads)
       THEN /\ calls' = [calls EXCEPT ![c] = [call EXCEPT !.adapters = ads,
                                                          !.status = "rejected",
                                                          !.error = CatchError(AggregateError)]]
            /\ cache' = CatchCache(cache, call.cacheKey)
       ELSE /\ calls' = [calls EXCEPT ![c] = [call EXCEPT !.adapters = ads]]
            /\ cache' = cache

(***************************************************************************)
(* Actions                                                                 *)
(***************************************************************************)
NoFn == [fn |-> "none", code |-> 0, desc |-> "", val |-> ""]

Init ==
    /\ now = 0
    /\ ticks = 0
    /\ cache = <<>>
    /\ calls = [c \in 1..MaxCalls |-> IdleCall]
    /\ started = 0
    /\ fnRes = NoFn
    /\ requests = [c \in 1..MaxCalls |-> NoRequests]
    /\ ui = init

\* Time passes
Tick ==
    /\ ticks < MaxTicks
    /\ \E d \in TickSteps : now' = now + d
    /\ ticks' = ticks + 1
    /\ UNCHANGED <<cache, calls, started, fnRes, requests, ui>>

\* fetchWeatherData(city) up to its await: the cached report is returned, or
\* the three adapters are started, each issuing its first request.
fetchWeatherData(city) ==
    /\ started < MaxCalls
    /\ LET c == started + 1
           cacheKey == cacheKeyOf(city)
       IN IF CacheHit(cache, cacheKey, now)
          THEN /\ calls' = [calls EXCEPT ![c] =
                    [IdleCall EXCEPT !.status = "fulfilled", !.city = city,
                                     !.cacheKey = cacheKey, !.saw = "hit",
                                     !.value = cache[cacheKey].data]]
               /\ requests' = requests
          ELSE /\ calls' = [calls EXCEPT ![c] =
                    [IdleCall EXCEPT !.status = "pending", !.city = city,
                                     !.cacheKey = cacheKey,
                                     !.saw = IF cacheKey \in DOMAIN cache
                                             THEN "stale" ELSE "absent",
                                     !.adapters = [a \in Adapters |-> "pending"]]]
               /\ requests' = [requests EXCEPT ![c] = FirstRequests]
    /\ started' = started + 1
    /\ UNCHANGED <<now, ticks, cache, fnRes>>

\* fetchWeatherData is called, by a caller that is not the widget's own
\* handleSearch
FetchWeatherData ==
    /\ \E city \in Queries : fetchWeatherData(city)
    /\ UNCHANGED ui

\* The WeatherAPI request of call c completes and fetchFromWeatherAPI ends
\* with `outcome`
WeatherAPICompletes(c, outcome) ==
    /\ calls[c].adapters["WeatherAPI"] = "pending"
    /\ Settle(c, "WeatherAPI", outcome)
    /\ UNCHANGED <<now, ticks, started, fnRes, requests>>

\* The geocoding request of call c completes with `geo`: fetchFromOpenMeteo
\* fails, or goes on to issue the forecast request
GeocodingCompletes(c, geo) ==
    /\ calls[c].adapters["OpenMeteo"] = "pending"
    /\ IF geo.ok
       THEN /\ calls' = [calls EXCEPT ![c].place = geo.value,
                                      ![c].adapters["OpenMeteo"] = "forecast"]
            /\ cache' = cache
       ELSE Settle(c, "OpenMeteo", geo)
    /\ requests' = [requests EXCEPT ![c].Forecast = ForecastRequests(@, geo)]
    /\ UNCHANGED <<now, ticks, started, fnRes>>

\* The forecast request of call c completes and fetchFromOpenMeteo ends with
\* `outcome`
ForecastCompletes(c, outcome) ==
    /\ calls[c].adapters["OpenMeteo"] = "forecast"
    /\ Settle(c, "OpenMeteo", outcome)
    /\ UNCHANGED <<now, ticks, started, fnRes, requests>>

\* The wttr.in request of call c completes and fetchFromWttr ends with
\* `outcome`
WttrCompletes(c, outcome) ==
    /\ calls[c].adapters["Wttr"] = "pending"
    /\ Settle(c, "Wttr", outcome)
    /\ UNCHANGED <<now, ticks, started, fnRes, requests>>

\* What each adapter makes of each answer to a request for city q
WeatherAPIOutcomes ==
    [q \in Queries |-> {fetchFromWeatherAPI(r) : r \in WeatherAPIAnswers(PlaceOf(q))}]

GeocodingOutcomes ==
    [q \in Queries |-> {geocode(r) : r \in GeocodingAnswers(PlaceOf(q))}]

WttrOutcomes ==
    [q \in Queries |-> {fetchFromWttr(r) : r \in WttrAnswers(PlaceOf(q))}]

WeatherAPIResponds ==
    \E c \in 1..started : \E o \in WeatherAPIOutcomes[calls[c].city] :
        WeatherAPICompletes(c, o) /\ UNCHANGED ui

GeocodingResponds ==
    \E c \in 1..started : \E o \in GeocodingOutcomes[calls[c].city] :
        GeocodingCompletes(c, o) /\ UNCHANGED ui

ForecastResponds ==
    \E c \in 1..started : \E r \in ForecastAnswers :
        ForecastCompletes(c, forecast(calls[c].place, r)) /\ UNCHANGED ui

WttrResponds ==
    \E c \in 1..started : \E o \in WttrOutcomes[calls[c].city] :
        WttrCompletes(c, o) /\ UNCHANGED ui

Next ==
    \/ Tick
    \/ FetchWeatherData
    \/ WeatherAPIResponds
    \/ GeocodingResponds
    \/ ForecastResponds
    \/ WttrResponds

Spec == Init /\ [][Next]_vars

(***************************************************************************)
(* One call of fetchWeatherData against providers that may answer anything *)
(* (malformed bodies, bodies that lack fields).                            *)
(***************************************************************************)
FetchFirst == started = 0 /\ FetchWeatherData

WeatherAPIRespondsOddly ==
    started = 1 /\ \E r \in WeatherAPIAnswers(PlaceOf(calls[1].city)) \cup WeatherAPIOddAnswers(PlaceOf(calls[1].city)) :
        WeatherAPICompletes(1, fetchFromWeatherAPI(r)) /\ UNCHANGED ui

GeocodingRespondsOddly ==
    started = 1 /\ \E r \in GeocodingAnswers(PlaceOf(calls[1].city)) \cup GeocodingOddAnswers(PlaceOf(calls[1].city)) :
        GeocodingCompletes(1, geocode(r)) /\ UNCHANGED ui

ForecastRespondsOddly ==
    \E r \in ForecastAnswers \cup ForecastOddAnswers :
        calls[1].adapters["OpenMeteo"] = "forecast"
            /\ ForecastCompletes(1, forecast(calls[1].place, r)) /\ UNCHANGED ui

WttrRespondsOddly ==
    started = 1 /\ \E r \in WttrAnswers(PlaceOf(calls[1].city)) \cup WttrOddAnswers(PlaceOf(calls[1].city)) :
        WttrCompletes(1, fetchFromWttr(r)) /\ UNCHANGED ui

NextAdapters ==
    \/ FetchFirst
    \/ WeatherAPIRespondsOddly
    \/ GeocodingRespondsOddly
    \/ ForecastRespondsOddly
    \/ WttrRespondsOddly

SpecAdapters == Init /\ [][NextAdapters]_vars

(***************************************************************************)
(* The pure helpers applied to inputs drawn at the start                   *)
(***************************************************************************)
CodeInputs == (-3..MaxCode) \cup {999}

DescriptionInputs ==
    {"Sunny", "Clear", "Partly cloudy", "CLOUDY", "Overcast",
     "Light rain with clouds", "Patchy rain possible", "Light drizzle",
     "light thunderstorms with hail", "Thundery outbreaks possible",
     "Moderate or heavy rain with thunder", "Heavy snow", "Mist", "Freezing fog",
     "Blizzard", "Sunny intervals with cloud and rain", ""}

InitFn ==
    /\ now = 0
    /\ ticks = 0
    /\ cache = <<>>
    /\ calls = [c \in 1..MaxCalls |-> IdleCall]
    /\ started = 0
    /\ requests = [c \in 1..MaxCalls |-> NoRequests]
    /\ ui = init
    /\ \E code \in CodeInputs : \E desc \in DescriptionInputs :
         fnRes = [fn |-> "none", code |-> code, desc |-> desc, val |-> ""]

ApplyGetWeatherDescription ==
    /\ fnRes' = [fnRes EXCEPT !.fn = "getWeatherDescription",
                              !.val = getWeatherDescription(Num(fnRes.code))]
    /\ UNCHANGED <<now, ticks, cache, calls, started, requests, ui>>

ApplyGetWeatherIconFromCode ==
    /\ fnRes' = [fnRes EXCEPT !.fn = "getWeatherIconFromCode",
                              !.val = getWeatherIconFromCode(Num(fnRes.code))]
    /\ UNCHANGED <<now, ticks, cache, calls, started, requests, ui>>

ApplyGetWeatherIconFromDescription ==
    /\ fnRes' = [fnRes EXCEPT !.fn = "getWeatherIconFromDescription",
                              !.val = getWeatherIconFromDescription(fnRes.desc)]
    /\ UNCHANGED <<now, ticks, cache, calls, started, requests, ui>>

NextFn ==
    \/ ApplyGetWeatherDescription
    \/ ApplyGetWeatherIconFromCode
    \/ ApplyGetWeatherIconFromDescription

SpecFn == InitFn /\ [][NextFn]_vars

(***************************************************************************)
(* One call of fetchWeatherData against providers each of which answers in *)
(* the end unless it hangs: a fetch() that is never answered leaves its    *)
(* adapter's promise unsettled for good ("hung"), there being no timeout   *)
(* or AbortController on any fetch() of the file.                          *)
(***************************************************************************)
Hangs ==
    \E c \in 1..started : \E a \in Adapters :
        /\ calls[c].adapters[a] \in {"pending", "forecast"}
        /\ calls' = [calls EXCEPT ![c].adapters[a] = "hung"]
        /\ UNCHANGED <<now, ticks, cache, started, fnRes, requests, ui>>

NextLive ==
    \/ FetchFirst
    \/ Hangs
    \/ WeatherAPIResponds
    \/ GeocodingResponds
    \/ ForecastResponds
    \/ WttrResponds

SpecLive ==
    /\ Init
    /\ [][NextLive]_vars
    /\ WF_vars(WeatherAPIResponds)
    /\ WF_vars(GeocodingResponds)
    /\ WF_vars(ForecastResponds)
    /\ WF_vars(WttrResponds)

(***************************************************************************)
(* The widget: the user types, clicks the button and presses Enter;        *)
(* handleSearch runs fetchWeatherData and goes on after its await in the   *)
(* same turn of the event loop in which the call settles; showError's      *)
(* timers run when they are due.                                           *)
(***************************************************************************)
\* a second passes at most MaxSeconds times in a run of the widget
MaxSeconds == 3

\* What the user types into the input field
Inputs == {" Paris ", "  "}

\* handleSearch after its await: the call has just settled (or not)
AfterAwait(u, before, after) ==
    IF before.status # "fulfilled" /\ after.status = "fulfilled"
    THEN displayWeatherData(u, after.value)
    ELSE IF before.status # "rejected" /\ after.status = "rejected"
    THEN showError(u, GenericError)
    ELSE u

\* handleSearch, with the part after the await when fetchWeatherData
\* returned a cached report
handleSearch ==
    LET city == trim(ui.input) IN
    IF city = ""
    THEN /\ ui' = showMessage(ui, EnterCityName)
         /\ UNCHANGED <<now, ticks, cache, calls, started, fnRes, requests>>
    ELSE /\ fetchWeatherData(city)
         /\ ui' = AfterAwait(showLoading(ui), calls[started + 1], calls'[started + 1])

\* the user edits the input field
TypeInput ==
    /\ \E text \in Inputs : ui' = [ui EXCEPT !.input = text]
    /\ ui'.input # ui.input
    /\ UNCHANGED <<now, ticks, cache, calls, started, fnRes, requests>>

\* searchBtn's click listener; a disabled button gets no click
Click == ~ui.disabled /\ handleSearch

\* cityInput's keypress listener: only the Enter key does anything
KeyPress(key) == IF key = "Enter" THEN handleSearch ELSE UNCHANGED vars

EnterKey == \E key \in {"Enter"} : KeyPress(key)

WeatherAPIAnswersSearch ==
    \E c \in 1..started : \E o \in WeatherAPIOutcomes[calls[c].city] :
        WeatherAPICompletes(c, o) /\ ui' = AfterAwait(ui, calls[c], calls'[c])

GeocodingAnswersSearch ==
    \E c \in 1..started : \E o \in GeocodingOutcomes[calls[c].city] :
        GeocodingCompletes(c, o) /\ ui' = AfterAwait(ui, calls[c], calls'[c])

ForecastAnswersSearch ==
    \E c \in 1..started : \E r \in ForecastAnswers :
        /\ ForecastCompletes(c, forecast(calls[c].place, r))
        /\ ui' = AfterAwait(ui, calls[c], calls'[c])

WttrAnswersSearch ==
    \E c \in 1..started : \E o \in WttrOutcomes[calls[c].city] :
        WttrCompletes(c, o) /\ ui' = AfterAwait(ui, calls[c], calls'[c])

\* the callback of showError's setTimeout
TimerFires ==
    /\ ui.timers # <<>>
    /\ Head(ui.timers) = 0
    /\ ui' = [ui EXCEPT !.error = FALSE, !.timers = Tail(@)]
    /\ UNCHANGED <<now, ticks, cache, calls, started, fnRes, requests>>

\* a second passes; a timer that is due runs first
Second ==
    /\ ticks < MaxSeconds
    /\ \A i \in DOMAIN ui.timers : ui.timers[i] >= 1000
    /\ now' = now + 1000
    /\ ticks' = ticks + 1
    /\ ui' = [ui EXCEPT !.timers = [i \in DOMAIN @ |-> @[i] - 1000]]
    /\ UNCHANGED <<cache, calls, started, fnRes, requests>>

NextUI ==
    \/ TypeInput
    \/ Click
    \/ EnterKey
    \/ WeatherAPIAnswersSearch
    \/ GeocodingAnswersSearch
    \/ ForecastAnswersSearch
    \/ WttrAnswersSearch
    \/ TimerFires
    \/ Second

SpecUI == Init /\ [][NextUI]_vars

(***************************************************************************)
(* Properties                                                              *)
(***************************************************************************)
Calls == 1..MaxCalls

ParisVariants == {"Paris", " paris ", "PARIS"}

\* The report each adapter makes of its provider's well-formed answer
ExpectedReport(a, city) ==
    LET name == IF city \in ParisVariants THEN "Paris, France" ELSE "Rome, Italy" IN
    CASE a = "WeatherAPI" -> Report(name, Num(71), Num(40), "sunny", "01d")
      [] a = "OpenMeteo" -> Report(name, Num(68), Num(65), "slight rain", "10d")
      [] a = "Wttr" -> Report(name, Num(66), Num(72), "partly cloudy", "03d")

IdleAdapters == [a \in Adapters |-> "idle"]

\* C1: a call whose key has an entry younger than CACHE_DURATION is fulfilled
\* at once with the stored report, starts no adapter (then or later) and
\* leaves the cache, the entry's timestamp included, as it was.
C1_FreshEntryIsReturned ==
    [][\A c \in Calls :
        LET k == calls'[c].cacheKey IN
        /\ (/\ calls[c].status = "idle"
            /\ calls'[c].status # "idle"
            /\ k \in DOMAIN cache
            /\ now - cache[k].timestamp < CACHE_DURATION)
           => /\ calls'[c].status = "fulfilled"
              /\ calls'[c].value = cache[k].data
              /\ calls'[c].adapters = IdleAdapters
              /\ cache' = cache
        /\ (calls[c].status = "fulfilled" /\ calls[c].adapters = IdleAdapters)
           => calls'[c] = calls[c]]_vars

C1_Witness ==
    \E c \in Calls :
        /\ calls[c].saw = "hit"
        /\ calls[c].status = "fulfilled"
        /\ calls[c].adapters = IdleAdapters
        /\ calls[c].value = cache[calls[c].cacheKey].data
        /\ cache[calls[c].cacheKey].timestamp = 0
        /\ now = CACHE_DURATION \div 2

\* C2: a call whose key has an entry of age CACHE_DURATION or more does not
\* return it but starts the three adapters, and a race that succeeds puts the
\* winning report under the key with the time of the success.
C2_StaleEntryIsRefetched ==
    [][\A c \in Calls :
        LET k == calls'[c].cacheKey IN
        /\ (/\ calls[c].status = "idle"
            /\ calls'[c].status # "idle"
            /\ k \in DOMAIN cache
            /\ now - cache[k].timestamp >= CACHE_DURATION)
           => /\ calls'[c].status = "pending"
              /\ calls'[c].adapters = [a \in Adapters |-> "pending"]
              /\ cache' = cache
        /\ (calls[c].status = "pending" /\ calls'[c].status = "fulfilled")
           => /\ k \in DOMAIN cache'
              /\ cache'[k] = [data |-> calls'[c].value, timestamp |-> now]]_vars

C2_Witness ==
    \E c \in Calls :
        /\ calls[c].saw = "stale"
        /\ calls[c].status = "fulfilled"
        /\ now = CACHE_DURATION
        /\ cache[calls[c].cacheKey] = [data |-> calls[c].value, timestamp |-> CACHE_DURATION]
        /\ \E d \in Calls : d # c /\ calls[d].value # calls[c].value
                            /\ calls[d].cacheKey = calls[c].cacheKey

\* C3: whenever exactly one adapter of a call has succeeded and the other two
\* have failed, in whatever order, the call is fulfilled with that adapter's
\* report, and the cache holds it under the call's key (or what a later
\* successful call for the same key put there).
C3_OnlySuccessWins ==
    \A c \in Calls : \A a \in Adapters :
        (/\ calls[c].adapters[a] = "fulfilled"
         /\ \A b \in Adapters \ {a} : calls[c].adapters[b] = "rejected")
        => /\ calls[c].status = "fulfilled"
           /\ calls[c].value = ExpectedReport(a, calls[c].city)
           /\ calls[c].cacheKey \in DOMAIN cache
           /\ \/ cache[calls[c].cacheKey].data = ExpectedReport(a, calls[c].city)
              \/ \E d \in Calls \ {c} :
                    /\ calls[d].cacheKey = calls[c].cacheKey
                    /\ calls[d].status = "fulfilled"
                    /\ cache[calls[c].cacheKey].data = calls[d].value

C3_Witness ==
    \E c \in Calls :
        /\ calls[c].adapters = [a \in Adapters |->
                                   IF a = "Wttr" THEN "fulfilled" ELSE "rejected"]
        /\ calls[c].status = "fulfilled"
        /\ calls[c].value = ExpectedReport("Wttr", calls[c].city)
        /\ cache[calls[c].cacheKey].data = calls[c].value

\* C4: the step in which the last of a call's three adapters fails rejects
\* the call with the unified error, and no step of a call that is not its
\* fulfilment (its start on a miss, a failure, its rejection) changes the
\* cache: no entry is created, overwritten or removed.
C4_AllFailedLeavesCache ==
    [][\A c \in Calls :
        /\ (/\ calls'[c] # calls[c]
            /\ \A a \in Adapters : calls'[c].adapters[a] = "rejected")
           => /\ calls'[c].status = "rejected"
              /\ calls'[c].error = UnifiedError
              /\ cache' = cache
        /\ (calls'[c] # calls[c] /\ calls'[c].status \in {"pending", "rejected"})
           => cache' = cache]_vars

C4_Witness ==
    \E c \in Calls :
        /\ calls[c].status = "rejected"
        /\ calls[c].saw = "stale"
        /\ calls[c].cacheKey \in DOMAIN cache
        /\ cache[calls[c].cacheKey].timestamp = 0
        /\ now = CACHE_DURATION

\* C5: the first adapter of a pending call to succeed fulfils the call with
\* its own report and puts that report in the cache, whichever adapter it is;
\* an adapter that fails while another is still running leaves the call
\* pending; and whatever an adapter delivers after the call was fulfilled
\* changes neither the call's value nor the cache.
C5_FirstSuccessWins ==
    [][\A c \in Calls : \A a \in Adapters :
        /\ (/\ calls[c].status = "pending"
            /\ calls[c].adapters[a] # "fulfilled"
            /\ calls'[c].adapters[a] = "fulfilled")
           => /\ calls'[c].status = "fulfilled"
              /\ calls'[c].value = ExpectedReport(a, calls[c].city)
              /\ cache'[calls[c].cacheKey].data = ExpectedReport(a, calls[c].city)
        /\ (/\ calls[c].status = "pending"
            /\ calls[c].adapters[a] # "rejected"
            /\ calls'[c].adapters[a] = "rejected"
            /\ \E b \in Adapters : calls'[c].adapters[b] \in {"pending", "forecast"})
           => calls'[c].status = "pending" /\ cache' = cache
        /\ (calls[c].status = "fulfilled" /\ calls'[c] # calls[c])
           => /\ calls'[c].status = "fulfilled"
              /\ calls'[c].value = calls[c].value
              /\ cache' = cache]_vars

C5_Witness ==
    \E c \in Calls :
        /\ calls[c].adapters["WeatherAPI"] = "fulfilled"
        /\ calls[c].adapters["OpenMeteo"] = "rejected"
        /\ calls[c].adapters["Wttr"] = "fulfilled"
        /\ calls[c].value = ExpectedReport("Wttr", calls[c].city)
        /\ cache[calls[c].cacheKey].data = ExpectedReport("Wttr", calls[c].city)

\* C6: a call is rejected only when all three of its adapters have failed,
\* and the error it is rejected with is the unified error; no call carries
\* an error otherwise.
C6_OnlyUnifiedError ==
    \A c \in Calls :
        /\ calls[c].status = "rejected"
           => /\ \A a \in Adapters : calls[c].adapters[a] = "rejected"
              /\ calls[c].error = UnifiedError
        /\ calls[c].status # "rejected" => calls[c].error = ""

C6_Witness ==
    \E c \in Calls :
        /\ calls[c].status = "rejected"
        /\ calls[c].error = UnifiedError
        /\ \E d \in Calls : /\ calls[d].status = "pending"
                            /\ calls[d].adapters["WeatherAPI"] = "rejected"
                            /\ calls[d].adapters["OpenMeteo"] = "rejected"

\* C7: "Paris", " paris " and "PARIS" share one cache key: the cache never
\* holds two entries for them, and once it holds a fresh entry stored by a
\* call for one of them, a call for any of them is fulfilled with that entry's
\* report without starting an adapter.
C7_VariantsShareEntry ==
    /\ [](Cardinality({k \in DOMAIN cache :
                          \E c \in Calls : /\ calls[c].city \in ParisVariants
                                           /\ calls[c].cacheKey = k}) <= 1)
    /\ [][\A c \in Calls : \A k \in DOMAIN cache :
            (/\ calls[c].status = "idle"
             /\ calls'[c].status # "idle"
             /\ calls'[c].city \in ParisVariants
             /\ \E d \in Calls : calls[d].city \in ParisVariants /\ calls[d].cacheKey = k
             /\ now - cache[k].timestamp < CACHE_DURATION)
            => /\ calls'[c].status = "fulfilled"
               /\ calls'[c].value = cache[k].data
               /\ calls'[c].adapters = IdleAdapters
               /\ cache' = cache]_vars

C7_Witness ==
    /\ calls[1].city = "PARIS"
    /\ calls[1].status = "fulfilled"
    /\ calls[2].city = " paris "
    /\ calls[2].saw = "hit"
    /\ calls[2].value = calls[1].value
    /\ DOMAIN cache = {"paris"}

\* C8 (as the specification states it): every report a call is fulfilled
\* with has its five fields populated: a location label, a numeric
\* temperature, a numeric humidity, a condition text and an icon key.
Populated(report) ==
    /\ report.name # ""
    /\ ~includes(report.name, "undefined")
    /\ IsNum(report.main.temp)
    /\ IsNum(report.main.humidity)
    /\ report.weather[1].description # ""
    /\ report.weather[1].icon \in {"01d", "02d", "03d", "09d", "10d", "11d", "13d", "50d"}

C8_AllFieldsPopulated ==
    \A c \in Calls : calls[c].status = "fulfilled" => Populated(calls[c].value)

\* C9: code 61 gives "slight rain" and '10d', code 3 gives "overcast" and
\* '02d', and the unlisted code 999 gives "clear sky" with the thunderstorm
\* icon '11d', as every code of 95 or more does.
C9_CodeMapping ==
    /\ (fnRes.fn = "getWeatherDescription" /\ fnRes.code = 61) => fnRes.val = "slight rain"
    /\ (fnRes.fn = "getWeatherIconFromCode" /\ fnRes.code = 61) => fnRes.val = "10d"
    /\ (fnRes.fn = "getWeatherDescription" /\ fnRes.code = 3) => fnRes.val = "overcast"
    /\ (fnRes.fn = "getWeatherIconFromCode" /\ fnRes.code = 3) => fnRes.val = "02d"
    /\ (fnRes.fn = "getWeatherDescription" /\ fnRes.code = 999) => fnRes.val = "clear sky"
    /\ (fnRes.fn = "getWeatherIconFromCode" /\ fnRes.code = 999) => fnRes.val = "11d"

C9_Witness ==
    /\ fnRes.fn = "getWeatherIconFromCode"
    /\ fnRes.code = 999
    /\ fnRes.val = "11d"

\* C9 as the specification states it: code 999 gives the clear-day icon '01d'.
C9_AsStated ==
    /\ (fnRes.fn = "getWeatherDescription" /\ fnRes.code = 61) => fnRes.val = "slight rain"
    /\ (fnRes.fn = "getWeatherIconFromCode" /\ fnRes.code = 61) => fnRes.val = "10d"
    /\ (fnRes.fn = "getWeatherDescription" /\ fnRes.code = 3) => fnRes.val = "overcast"
    /\ (fnRes.fn = "getWeatherIconFromCode" /\ fnRes.code = 3) => fnRes.val = "02d"
    /\ (fnRes.fn = "getWeatherDescription" /\ fnRes.code = 999) => fnRes.val = "clear sky"
    /\ (fnRes.fn = "getWeatherIconFromCode" /\ fnRes.code = 999) => fnRes.val = "01d"

\* The keyword groups in the order they are tested, and their icons
KeywordGroups ==
    << {"clear", "sunny"}, {"cloud"}, {"rain", "drizzle"}, {"thunder"}, {"snow"},
       {"mist", "fog"} >>

GroupIcons == << "01d", "03d", "10d", "11d", "13d", "50d" >>

Contains(description, group) ==
    \E kw \in group : includes(toLowerCase(description), kw)

FirstGroupIcon(description) ==
    LET matching == {i \in DOMAIN KeywordGroups : Contains(description, KeywordGroups[i])} IN
    IF matching = {} THEN "01d"
    ELSE GroupIcons[CHOOSE i \in matching : \A j \in matching : i <= j]

\* C10: getWeatherIconFromDescription returns the icon of the first keyword
\* group, in the order clear/sunny, cloud, rain/drizzle, thunder, snow,
\* mist/fog, that the description contains whatever its letter case, and
\* '01d' when it contains none; a description with "cloud" and "rain" (and
\* neither "clear" nor "sunny") gets '03d', and "light thunderstorms with
\* hail" gets '11d'.
C10_FirstKeywordWins ==
    fnRes.fn = "getWeatherIconFromDescription"
    => /\ fnRes.val = FirstGroupIcon(fnRes.desc)
       /\ (/\ Contains(fnRes.desc, {"cloud"})
           /\ Contains(fnRes.desc, {"rain"})
           /\ ~Contains(fnRes.desc, {"clear", "sunny"}))
          => fnRes.val = "03d"
       /\ fnRes.desc = "light thunderstorms with hail" => fnRes.val = "11d"

C10_Witness ==
    /\ fnRes.fn = "getWeatherIconFromDescription"
    /\ fnRes.desc = "Light rain with clouds"
    /\ fnRes.val = "03d"

\* C13: a call that finds no fresh entry starts its own three adapters,
\* with their own requests, also while another call for the same key is
\* pending; every race that succeeds writes the key's entry, also over the
\* entry an overlapping race wrote before it, so that the entry holds the
\* report of the race that finished last.
C13_NoCoalescing ==
    [][\A c \in Calls :
        LET k == calls'[c].cacheKey IN
        /\ (/\ calls[c].status = "idle"
            /\ calls'[c].status # "idle"
            /\ \E d \in Calls \ {c} : calls[d].status = "pending" /\ calls[d].cacheKey = k
            /\ ~(k \in DOMAIN cache /\ now - cache[k].timestamp < CACHE_DURATION))
           => /\ calls'[c].status = "pending"
              /\ calls'[c].adapters = [a \in Adapters |-> "pending"]
              /\ requests'[c] = FirstRequests
              /\ \A d \in Calls \ {c} : calls'[d] = calls[d] /\ requests'[d] = requests[d]
        /\ (/\ calls[c].status = "pending"
            /\ calls'[c].status = "fulfilled"
            /\ \E d \in Calls \ {c} : /\ calls[d].cacheKey = k
                                      /\ calls[d].status = "fulfilled"
                                      /\ calls[d].saw # "hit")
           => /\ cache'[k] = [data |-> calls'[c].value, timestamp |-> now]
              /\ \A d \in Calls \ {c} : calls'[d] = calls[d]]_vars

C13_Witness ==
    \E c \in Calls : \E d \in Calls \ {c} :
        /\ calls[c].cacheKey = calls[d].cacheKey
        /\ calls[c].saw = "absent"
        /\ calls[d].saw = "absent"
        /\ calls[c].status = "fulfilled"
        /\ calls[d].status = "fulfilled"
        /\ calls[c].value # calls[d].value
        /\ c < d
        /\ cache[calls[c].cacheKey].data = calls[c].value
        /\ requests[c] = requests[d]

\* C17 (as the specification states it): the icon of an integer weather code
\* follows the bucket rule 0, 1..3, 45..48, 51..55, 61..65, 71..75, >= 95,
\* and is '01d' for every other code, the negative ones included.
BucketRule(code) ==
    IF code = 0 THEN "01d"
    ELSE IF code \in 1..3 THEN "02d"
    ELSE IF code \in 45..48 THEN "50d"
    ELSE IF code \in 51..55 THEN "09d"
    ELSE IF code \in 61..65 THEN "10d"
    ELSE IF code \in 71..75 THEN "13d"
    ELSE IF code >= 95 THEN "11d"
    ELSE "01d"

C17_BucketRule ==
    fnRes.fn = "getWeatherIconFromCode" => fnRes.val = BucketRule(fnRes.code)

\* The endpoints each adapter sends requests to
EndpointsOf(a) ==
    CASE a = "WeatherAPI" -> {"WeatherAPI"}
      [] a = "OpenMeteo" -> {"Geocoding", "Forecast"}
      [] a = "Wttr" -> {"Wttr"}

\* C18: per call of fetchWeatherData at most one request goes to each of the
\* four endpoints (none on a cache hit); the forecast request exists only
\* once the geocoding request has given a match; a geocoding that fails
\* (transport failure, non-success status, no match) or a forecast that
\* fails rejects OpenMeteo's promise; and a promise that has failed stays
\* failed, with no request issued after the failure.
C18_SequencedNoRetry ==
    /\ [](\A c \in Calls :
            /\ requests[c].WeatherAPI <= 1
            /\ requests[c].Geocoding <= 1
            /\ requests[c].Forecast <= 1
            /\ requests[c].Wttr <= 1
            /\ calls[c].saw = "hit" => requests[c] = NoRequests
            /\ requests[c].Forecast = 1 => calls[c].place # Undefined
            /\ calls[c].adapters["OpenMeteo"] = "forecast" => requests[c].Forecast = 1
            /\ ~geocode(NetworkError).ok
            /\ ~geocode(Http(FALSE, BadJson)).ok
            /\ ~geocode(Http(TRUE, Obj([results |-> Arr(<<>>)]))).ok
            /\ ~forecast(Paris, NetworkError).ok
            /\ ~forecast(Paris, Http(FALSE, BadJson)).ok)
    /\ [][\A c \in Calls :
            /\ (/\ calls[c].adapters["OpenMeteo"] = "pending"
                /\ calls'[c].adapters["OpenMeteo"] # "pending")
               => \/ /\ calls'[c].adapters["OpenMeteo"] = "forecast"
                     /\ requests'[c].Forecast = 1
                  \/ /\ calls'[c].adapters["OpenMeteo"] = "rejected"
                     /\ requests'[c].Forecast = 0
            /\ (/\ calls[c].adapters["OpenMeteo"] = "forecast"
                /\ calls'[c].adapters["OpenMeteo"] # "forecast")
               => calls'[c].adapters["OpenMeteo"] \in {"fulfilled", "rejected"}
            /\ \A a \in Adapters :
                 calls[c].adapters[a] \in {"fulfilled", "rejected"}
                 => /\ calls'[c].adapters[a] = calls[c].adapters[a]
                    /\ \A e \in EndpointsOf(a) : requests'[c][e] = requests[c][e]]_vars

C18_Witness ==
    \E c \in Calls : \E d \in Calls \ {c} :
        /\ calls[c].adapters["OpenMeteo"] = "rejected"
        /\ requests[c] = FirstRequests
        /\ calls[d].adapters["OpenMeteo"] = "rejected"
        /\ requests[d].Geocoding = 1
        /\ requests[d].Forecast = 1

\* A call none of whose adapters will settle it: at least one hangs and
\* every other one has failed or hangs too
Stuck(c) ==
    /\ \E a \in Adapters : calls[c].adapters[a] = "hung"
    /\ \A a \in Adapters : calls[c].adapters[a] \in {"hung", "rejected"}

\* C11: a pending call settles in the end unless it is stuck with a hung
\* adapter and no adapter left to succeed; it is fulfilled as soon as one
\* adapter has succeeded, whatever hangs, and rejected as soon as all three
\* have failed; and a stuck call (all three hung, or one or two hung and the
\* rest failed) stays pending for ever, no timeout settling it.
C11_SettlesUnlessStuck ==
    /\ \A c \in Calls :
          (calls[c].status = "pending")
             ~> (calls[c].status \in {"fulfilled", "rejected"} \/ Stuck(c))
    /\ [](\A c \in Calls :
            /\ (\E a \in Adapters : calls[c].adapters[a] = "fulfilled")
               => calls[c].status = "fulfilled"
            /\ (\A a \in Adapters : calls[c].adapters[a] = "rejected")
               => calls[c].status = "rejected"
            /\ Stuck(c) => calls[c].status = "pending")
    /\ [][\A c \in Calls : Stuck(c) => Stuck(c)' /\ calls'[c] = calls[c]]_vars

C11_Witness ==
    \E c \in Calls :
        /\ calls[c].status = "pending"
        /\ calls[c].adapters["WeatherAPI"] = "rejected"
        /\ calls[c].adapters["OpenMeteo"] = "hung"
        /\ calls[c].adapters["Wttr"] = "rejected"

\* The calls of fetchWeatherData that have not settled
Unsettled == {c \in Calls : calls[c].status = "pending"}

\* C12 (as the specification states it): at no moment are two searches that
\* handleSearch started unsettled.
C12_OneSearchInFlight == Cardinality(Unsettled) <= 1

\* C14 (as the specification states it): the card has the class 'loading'
\* and the button is disabled whenever a search is unsettled, and neither is
\* the case when none is.
C14_LoadingTracksSearch ==
    /\ Unsettled # {} => ui.loading /\ ui.disabled
    /\ Unsettled = {} => ~ui.loading /\ ~ui.disabled

\* C15 (as the specification states it): after a failed search the card
\* keeps the class 'error' for as long as the timer of that failure (the
\* youngest one) has time left, and once no timer is pending neither the
\* class nor the error message is shown.
C15_ErrorLastsItsDelay ==
    /\ (/\ ui.message = GenericError
        /\ ui.messageShown
        /\ ui.timers # <<>>
        /\ ui.timers[Len(ui.timers)] > 0) => ui.error
    /\ ui.timers = <<>> => ~ui.error /\ ~(ui.message = GenericError /\ ui.messageShown)

\* C16: handleSearch run on an input that is empty after trimming leaves the
\* calls, their requests, the cache, the button, the card's classes and the
\* timers as they were; it shows 'Please enter a city name' and hides the
\* weather elements.
C16_BlankInputStopsAtHandler ==
    [][(trim(ui.input) = "" /\ (Click \/ EnterKey))
        => /\ calls' = calls
           /\ started' = started
           /\ requests' = requests
           /\ cache' = cache
           /\ ui'.disabled = ui.disabled
           /\ ui'.buttonText = ui.buttonText
           /\ ui'.loading = ui.loading
           /\ ui'.error = ui.error
           /\ ui'.timers = ui.timers
           /\ ui'.input = ui.input
           /\ ui'.report = ui.report
           /\ ui'.message = "Please enter a city name"
           /\ ui'.messageShown
           /\ ~ui'.elementsShown]_vars

C16_Witness ==
    /\ ui.input = "  "
    /\ ui.message = "Please enter a city name"
    /\ ui.messageShown
    /\ ~ui.elementsShown
    /\ ui.loading
    /\ ui.disabled
    /\ Unsettled # {}
    /\ cache = <<>>

\* C19 (as stated): the card never has the classes 'loading' and 'error' at
\* the same time.
C19_NeverLoadingAndError == ~(ui.loading /\ ui.error)

\* What the weather elements show of a report
Rendered(data) == displayWeatherData(init, data).report

\* C20 (as stated): when no search is unsettled, a report on display is the
\* one the most recently started search was fulfilled with, and an error
\* message on display means that the most recently started search failed.
C20_ShowsLatestSearch ==
    (started >= 1 /\ Unsettled = {})
    => /\ ui.elementsShown
          => /\ calls[started].status = "fulfilled"
             /\ ui.report = Rendered(calls[started].value)
       /\ (ui.message = GenericError /\ ui.messageShown)
          => calls[started].status = "rejected"

UpperLetters ==
    {"A", "B", "C", "D", "E", "F", "G", "H", "I", "J", "K", "L", "M",
     "N", "O", "P", "Q", "R", "S", "T", "U", "V", "W", "X", "Y", "Z"}

\* A string with no capital letter and no blank at either end
IsNormalized(k) ==
    /\ \A i \in 1..Len(k) : SubSeq(k, i, i) \notin UpperLetters
    /\ Len(k) > 0 => SubSeq(k, 1, 1) # " " /\ SubSeq(k, Len(k), Len(k)) # " "

\* C21: in every reachable state each cache key is lower-cased and trimmed,
\* and each entry holds the report that a race (a call that missed the
\* cache) for a city normalizing to that key was fulfilled with, which is
\* the report of an adapter that succeeded in that race, stamped with a time
\* that is not in the future; and no step removes an entry or lowers an
\* entry's timestamp.
C21_CacheIntegrity ==
    /\ [](\A k \in DOMAIN cache :
            /\ IsNormalized(k)
            /\ cache[k].timestamp <= now
            /\ \E c \in Calls :
                 /\ calls[c].status = "fulfilled"
                 /\ calls[c].saw \in {"absent", "stale"}
                 /\ toLowerCase(trim(calls[c].city)) = k
                 /\ cache[k].data = calls[c].value
                 /\ \E a \in Adapters :
                      /\ calls[c].adapters[a] = "fulfilled"
                      /\ cache[k].data = ExpectedReport(a, calls[c].city))
    /\ [][/\ DOMAIN cache \subseteq DOMAIN cache'
          /\ \A k \in DOMAIN cache : cache'[k].timestamp >= cache[k].timestamp]_vars

C21_Witness ==
    /\ DOMAIN cache = {"paris"}
    /\ \E c \in Calls :
         /\ calls[c].city = " paris "
         /\ calls[c].saw = "stale"
         /\ calls[c].adapters["WeatherAPI"] = "rejected"
         /\ cache["paris"] = [data |-> calls[c].value, timestamp |-> CACHE_DURATION]

====
